---- MODULE Spec2Model ----
(***************************************************************************)
(* The real-time presentation relay (server.js, kept as                    *)
(* src/unnamed/part_001 lines 98-367): a socket.io server that keeps four  *)
(* process-wide Maps (presentationWindows, controlPanels, messageQueue,    *)
(* heartbeats), one set of handlers per connection and two setInterval     *)
(* sweeps.  Every handler runs to completion (single-threaded event loop), *)
(* so each handler is one action.                                          *)
(*                                                                         *)
(* The socket.io library is not part of the repository.  What the relay    *)
(* reads from it is modelled by two sets: sockets (the ids for which       *)
(* io.sockets.sockets.get(id) returns a socket with connected = true) and  *)
(* closing (ids whose transport has gone and whose 'disconnect' event has  *)
(* not been dispatched to the relay yet).                                  *)
(*                                                                         *)
(* What the relay sends is observed per step: emitted holds the events the *)
(* last handler emitted to each socket, ack the acknowledgement callback   *)
(* it invoked, calls every result it passed to that callback, req the      *)
(* payload it was called with.                                             *)
(*                                                                         *)
(* The clients of the relay are the control's presentation store           *)
(* (src/src/store/presentationStore.ts), the display's view                *)
(* (PresentationView, src/unnamed/part_006) and the socket service both    *)
(* use (SocketService, src/unnamed/part_004).  Their fields are variables  *)
(* of their own; a specification of the relay alone leaves them as         *)
(* constructed.                                                            *)
(***************************************************************************)
EXTENDS Integers, Sequences, FiniteSets, TLC

\* ------------------------------------------------------------------ bounds
MaxTicks == 6       \* the clock stops after MaxTicks timer periods
MaxUpdates == 2     \* presentationUpdate requests over a run
MaxLiveTicks == 2   \* timer periods of the specification with fairness
MaxAttempts == 3    \* connection attempts of the socket service over a run
MaxCallers == 2     \* callers of connect() that wait for one attempt
MaxConnects == 2    \* 'connect' events of one socket object

\* --------------------------------------------------------- program constants
HEARTBEAT_INTERVAL == 30000
HEARTBEAT_TIMEOUT == 60000
staleTimeout == 5 * 60 * 1000
maxRetries == 3
StaleInterval == 60000

\* ------------------------------------------------------------------ inputs
Ids == {"s1", "s2", "s3"}
Null == "null"
TimedDisplays == {"s1"}
TimedControls == {"s2"}
DisplayIds == {"s1", "s3"}       \* ids the relay gives the display's transports
Songs == {"a1", "a2", "b1"}                        \* two songs share the id "a"
IdOf == [a1 |-> "a", a2 |-> "a", b1 |-> "b"]       \* song.id
SongIds == {"a", "b", "c"}
Segments == {"Seg1", "Seg2"}
Payloads == { [song |-> "S1", segment |-> "Seg1"],
              [song |-> "S1", segment |-> Null] }

\* --------------------------------------------------------------- variables
VARIABLES
  presentationWindows,  \* Map id -> {connectedAt, lastHeartbeat}
  controlPanels,        \* Map id -> {connectedAt, lastHeartbeat}
  messageQueue,         \* Map id -> array of {event, data}
  heartbeats,           \* Map id -> timestamp
  sockets,              \* ids with a connected socket object
  closing,              \* ids whose transport closed, 'disconnect' not yet dispatched
  now,                  \* Date.now()
  emitted,              \* per id: the events the last handler emitted to its socket
  ack,                  \* the acknowledgement the last handler passed to its callback
  calls,                \* the results the last handler passed to its callback, in order
  req,                  \* the payload of the presentationUpdate the last handler served
  updates,              \* history: number of presentationUpdate requests served
  latestRole,           \* history: per id, the role of its latest registration
  process,              \* the server process: listening (httpServer accepts
                        \* connections), exited (process.exit was called), fatal
                        \* (the last process-level error event raised, or "none")
  away                  \* history: one display that lost its transport (the first
                        \* to do so, until it registers as a display again), the
                        \* payloads requested while it had none (missed) and the
                        \* payloads sent to it since (received); NotTracked where
                        \* a specification keeps no such history

VARIABLES
  currentSong,          \* store: the song selected, or Null
  currentSegment,       \* store: the segment selected, or Null
  queue,                \* store: array of songs
  sent,                 \* the updates the last store action passed to sendUpdate
  localSong,            \* view: the song shown, or Null
  localSegment,         \* view: the segment shown, or Null
  handled,              \* the argument of the last call of the view's handleUpdate
  isConnected,          \* view: what the view reports about its connection
  retryCount,           \* view: failed runs of setupPresentation in a row
  setup,                \* view: the position of setupPresentation (pc) and the
                        \* socket id its registerPresentation was emitted on
  service,              \* the display's SocketService: socket (n: the attempt
                        \* that created it, 0 for null), connectionPromise (the
                        \* attempt it belongs to, 0 for null), isConnecting,
                        \* lastError, timer (the attempt whose connection timeout
                        \* is armed, 0 for none), attempts (started so far),
                        \* waiters (callers awaiting connectionPromise), settled
                        \* (the attempt the last step settled, with its outcome
                        \* and the number of callers that were handed it)
  wire,                 \* presentationUpdate payloads emitted by the control's
                        \* socket and not yet served by the relay
  inbox                 \* data of the presentationUpdate events emitted to the
                        \* display's socket and not yet handled by the view

storeVars == <<currentSong, currentSegment, queue, sent>>
viewVars == <<localSong, localSegment, handled, isConnected>>
displayVars == <<retryCount, setup, service>>
client == <<storeVars, viewVars, displayVars, wire, inbox>>

vars == <<presentationWindows, controlPanels, messageQueue, heartbeats, sockets,
          closing, now, emitted, ack, calls, req, updates, latestRole, process, away,
          client>>

\* ------------------------------------------------------------ Map helpers
MapHas(m, k) == k \in DOMAIN m
MapSet(m, k, v) == [x \in (DOMAIN m) \cup {k} |-> IF x = k THEN v ELSE m[x]]
MapDelete(m, k) == [x \in (DOMAIN m) \ {k} |-> m[x]]
EmptyMap == [x \in {} |-> 0]

\* ------------------------------------------------------------- the state
\* The handlers are operators from state record to state record, so that the
\* heartbeat sweep can run the disconnect handler as the code does.
State ==
  [pw |-> presentationWindows, cp |-> controlPanels, mq |-> messageQueue,
   hb |-> heartbeats, sockets |-> sockets, closing |-> closing,
   emitted |-> emitted, ack |-> ack, calls |-> calls, req |-> req,
   updates |-> updates,
   latestRole |-> latestRole, away |-> away]

NoAck == [event |-> "-", result |-> "-"]
NoReq == [none |-> TRUE]
NoAway == [id |-> "-", missed |-> <<>>, received |-> <<>>]
NotTracked == [id |-> "off", missed |-> <<>>, received |-> <<>>]
Undefined == [undefined |-> TRUE]
Msg(e, d) == [event |-> e, data |-> d]
Meta(t) == [connectedAt |-> t, lastHeartbeat |-> t]

\* The state a handler starts from: nothing emitted or acknowledged yet.
Fresh(st) ==
  [st EXCEPT !.emitted = [i \in Ids |-> <<>>], !.ack = NoAck, !.calls = <<>>,
             !.req = NoReq]

\* socket.emit(event, d[id]) on the socket object of every id in S.
EmitTo(st, S, e, d) ==
  [st EXCEPT
     !.emitted = [i \in Ids |-> IF i \in S THEN Append(@[i], Msg(e, d[i])) ELSE @[i]],
     !.away = IF @.id \in S /\ e = "presentationUpdate"
              THEN [@ EXCEPT !.received = Append(@, d[st.away.id])] ELSE @]

\* callback(result), when the client passed a callback.
Callback(st, e, cb, r) ==
  IF cb THEN [st EXCEPT !.ack = [event |-> e, result |-> r], !.calls = Append(@, r)]
  ELSE st

\* ------------------------------------------------------ io.on('connection')
\* A new socket object for id: the heartbeat is stamped and the messages queued
\* for this id are emitted in array order, then the queue entry is deleted.
RECURSIVE EmitAll(_, _, _)
EmitAll(st, id, msgs) ==
  IF msgs = <<>> THEN st
  ELSE LET m == Head(msgs)
           d == [i \in {id} |-> m.data]
       IN EmitAll(EmitTo(st, {id}, m.event, d), id, Tail(msgs))

\* Mutant: the flush takes a queue of the store whatever id it is kept for.
OnConnectionAnyQueue(st, id, t) ==
  LET s1 == [st EXCEPT !.sockets = @ \cup {id},
                       !.hb = MapSet(@, id, t),
                       !.latestRole = MapDelete(@, id)]
  IN IF s1.mq # EmptyMap
     THEN LET k == CHOOSE x \in DOMAIN s1.mq : TRUE
          IN [EmitAll(s1, id, s1.mq[k]) EXCEPT !.mq = MapDelete(@, k)]
     ELSE s1

OnConnection(st, id, t) ==
  LET s1 == [st EXCEPT !.sockets = @ \cup {id},
                       !.hb = MapSet(@, id, t),
                       !.latestRole = MapDelete(@, id)]
  IN IF MapHas(s1.mq, id)
     THEN [EmitAll(s1, id, s1.mq[id]) EXCEPT !.mq = MapDelete(@, id)]
     ELSE s1

\* ----------------------------------------------------------- socket.on('ping')
OnPing(st, id, t) ==
  LET d == [i \in {id} |-> Undefined]
  IN EmitTo([st EXCEPT !.hb = MapSet(@, id, t)], {id}, "pong", d)

\* ------------------------------------------- socket.on('registerPresentation')
\* Mutant: the notification loop walks presentationWindows instead of
\* controlPanels.
ConnectedControlsWrongMap(st) == {c \in DOMAIN st.pw : c \in st.sockets}

\* The control panels whose socket io.sockets.sockets still holds, connected.
ConnectedControls(st) == {c \in DOMAIN st.cp : c \in st.sockets}

\* io.to(controlId).emit('presentationConnected', { id: socket.id }) for every
\* control panel: the room of controlId holds its socket while it is connected.
OnRegisterPresentation(st, id, t, cb) ==
  LET s1 == [st EXCEPT !.pw = MapSet(@, id, Meta(t)),
                       !.latestRole = MapSet(@, id, "display"),
                       !.away = IF @.id = id THEN NoAway ELSE @]
      s2 == Callback(s1, "registerPresentation", cb, "success")
      d == [c \in ConnectedControls(s2) |-> [id |-> id]]
  IN EmitTo(s2, ConnectedControls(s2), "presentationConnected", d)

\* ------------------------------------------------ socket.on('registerControl')
OnRegisterControl(st, id, t, cb) ==
  Callback([st EXCEPT !.cp = MapSet(@, id, Meta(t)),
                      !.latestRole = MapSet(@, id, "control")],
           "registerControl", cb, "success")

\* --------------------------------------------- socket.on('presentationUpdate')
\* presentationWindows.forEach((data, windowId) => ...): the callback's first
\* parameter is the Map value and it is named data, so inside the loop `data`
\* is the registry entry of windowId, not the handler's argument.
FanOutData(payload, entry) == entry

\* Mutant: the check of the socket is lost and every display is taken as
\* unreachable.
ReachableNever(st, w) == FALSE

\* const socket = io.sockets.sockets.get(windowId); socket && socket.connected
Reachable(st, w) == w \in st.sockets

\* messageQueue.get(windowId).push(m), after set(windowId, []) when absent.
Enqueue(mq, w, m) == MapSet(mq, w, Append(IF MapHas(mq, w) THEN mq[w] ELSE <<>>, m))

\* Mutant: a display without a connected socket is skipped, nothing is queued.
QueueForNone(mq, S, data, pw) == mq

\* The else branch of the loop body, for the displays in S.
RECURSIVE QueueFor(_, _, _, _)
QueueFor(mq, S, data, pw) ==
  IF S = {} THEN mq
  ELSE LET w == CHOOSE x \in S : TRUE
       IN QueueFor(Enqueue(mq, w, Msg("presentationUpdate", FanOutData(data, pw[w]))),
                   S \ {w}, data, pw)

OnPresentationUpdate(st, id, data, cb) ==
  LET live == {w \in DOMAIN st.pw : Reachable(st, w)}
      down == {w \in DOMAIN st.pw : ~Reachable(st, w)}
      d == [w \in live |-> FanOutData(data, st.pw[w])]
      s1 == EmitTo(st, live, "presentationUpdate", d)
      s2 == [s1 EXCEPT
               !.mq = QueueFor(@, down, data, st.pw),
               !.req = data,
               !.updates = @ + 1,
               !.away = IF @.id \in Ids \ st.sockets
                        THEN [@ EXCEPT !.missed = Append(@, data)] ELSE @]
  IN Callback(s2, "presentationUpdate", cb, "success")

\* --------------------------------------------------- socket.on('disconnect')
\* Inside controlPanels.forEach the inner `const socket` is the control's
\* socket, so { id: socket.id } carries the id of the control it is sent to.
DisconnectedId(closedId, controlId) == controlId

\* Mutant: controlPanels.delete(socket.id) is missing.
OnDisconnectKeepsControl(st, id) ==
  LET d == [c \in Ids |-> [id |-> DisconnectedId(id, c)]]
      s1 == IF MapHas(st.pw, id)
            THEN LET s0 == [st EXCEPT !.pw = MapDelete(@, id)]
                 IN EmitTo(s0, ConnectedControls(s0), "presentationDisconnected", d)
            ELSE st
  IN [s1 EXCEPT !.mq = MapDelete(@, id),
                !.hb = MapDelete(@, id),
                !.closing = @ \ {id},
                !.latestRole = MapDelete(@, id)]

OnDisconnect(st, id) ==
  LET d == [c \in Ids |-> [id |-> DisconnectedId(id, c)]]
      s1 == IF MapHas(st.pw, id)
            THEN LET s0 == [st EXCEPT !.pw = MapDelete(@, id)]
                 IN EmitTo(s0, ConnectedControls(s0), "presentationDisconnected", d)
            ELSE st
  IN [s1 EXCEPT !.cp = MapDelete(@, id),
                !.mq = MapDelete(@, id),
                !.hb = MapDelete(@, id),
                !.closing = @ \ {id},
                !.latestRole = MapDelete(@, id)]

\* The transport of id goes away (the client left, the network dropped, or
\* socket.disconnect(true)): the socket leaves io.sockets.sockets.
CloseTransport(st, id) ==
  [st EXCEPT !.sockets = @ \ {id},
             !.closing = @ \cup {id},
             !.away = IF @ = NoAway /\ MapHas(st.pw, id)
                      THEN [id |-> id, missed |-> <<>>, received |-> <<>>]
                      ELSE @]

\* ------------------------------------------ setInterval: heartbeat check
\* [...heartbeats.entries()].forEach over a snapshot; order is the sequence in
\* which the entries are visited.  socket.disconnect(true) closes the
\* transport and dispatches 'disconnect' to the relay's handler before it
\* returns.
TimedOut(hb, t) == {k \in DOMAIN hb : t - hb[k] > HEARTBEAT_TIMEOUT}

\* Mutant: the timed-out socket is not disconnected, only its heartbeat entry
\* is deleted.
RECURSIVE HeartbeatWalkForgets(_, _)
HeartbeatWalkForgets(st, order) ==
  IF order = <<>> THEN st
  ELSE HeartbeatWalkForgets([st EXCEPT !.hb = MapDelete(@, Head(order))], Tail(order))

RECURSIVE HeartbeatWalk(_, _)
HeartbeatWalk(st, order) ==
  IF order = <<>> THEN st
  ELSE LET id == Head(order)
           s0 == IF id \in st.sockets
                 THEN OnDisconnect(CloseTransport(st, id), id)
                 ELSE st
       IN HeartbeatWalk([s0 EXCEPT !.hb = MapDelete(@, id)], Tail(order))

Orders(S) ==
  {o \in [1..Cardinality(S) -> S] : \A i, j \in 1..Cardinality(S) : o[i] = o[j] => i = j}

\* ------------------------------------------ setInterval: stale cleanup
StaleEntries(m, t) == {k \in DOMAIN m : t - m[k].lastHeartbeat > staleTimeout}

\* Mutant: the sweep stops after the first entry it deletes.
StaleCleanupOneAtATime(st, t) ==
  IF StaleEntries(st.pw, t) # {}
  THEN [st EXCEPT !.pw = MapDelete(@, CHOOSE k \in StaleEntries(st.pw, t) : TRUE)]
  ELSE IF StaleEntries(st.cp, t) # {}
       THEN [st EXCEPT !.cp = MapDelete(@, CHOOSE k \in StaleEntries(st.cp, t) : TRUE)]
       ELSE st

StaleCleanup(st, t) ==
  [st EXCEPT !.pw = [k \in (DOMAIN @) \ StaleEntries(@, t) |-> @[k]],
             !.cp = [k \in (DOMAIN @) \ StaleEntries(@, t) |-> @[k]]]

\* ------------------------------------------- exceptions inside a handler
\* Every handler body is one try block.  An exception can be raised where the
\* body calls out: by its first statement (console.log) before anything was
\* done, or by an emit inside a loop after the loop has served some of the
\* entries.  `at` names the place, `part` the entries served before it.
ThrowPlaces == {"entry", "loop"}

\* A loop over the Map m can raise after serving part when an entry is left
\* whose turn raises.
CanThrow(m, at, part) == at = "loop" => (DOMAIN m) \ part # {}

\* Mutant: the catch block only logs.
CaughtSilently(st, e, cb) == st

\* catch (error) { console.error(...); callback({ error: error.message }) }
Caught(st, e, cb) == Callback(st, e, cb, "error")

OnRegisterPresentationThrows(st, id, t, cb, at, part) ==
  IF at = "entry" THEN Caught(st, "registerPresentation", cb)
  ELSE LET s1 == [st EXCEPT !.pw = MapSet(@, id, Meta(t)),
                            !.latestRole = MapSet(@, id, "display"),
                            !.away = IF @.id = id THEN NoAway ELSE @]
           s2 == Callback(s1, "registerPresentation", cb, "success")
           d == [c \in ConnectedControls(s2) |-> [id |-> id]]
           s3 == EmitTo(s2, part \cap ConnectedControls(s2), "presentationConnected", d)
       IN Caught(s3, "registerPresentation", cb)

\* The body has no loop: the exception is raised on entry.
OnRegisterControlThrows(st, id, t, cb) == Caught(st, "registerControl", cb)

OnPresentationUpdateThrows(st, id, data, cb, at, part) ==
  LET s0 == [st EXCEPT !.req = data, !.updates = @ + 1]
  IN IF at = "entry" THEN Caught(s0, "presentationUpdate", cb)
     ELSE LET live == {w \in part \cap DOMAIN st.pw : Reachable(st, w)}
              down == {w \in part \cap DOMAIN st.pw : ~Reachable(st, w)}
              d == [w \in live |-> FanOutData(data, st.pw[w])]
              s1 == EmitTo(s0, live, "presentationUpdate", d)
              s2 == [s1 EXCEPT !.mq = QueueFor(@, down, data, st.pw)]
          IN Caught(s2, "presentationUpdate", cb)

\* The catch block of the disconnect handler logs and has no callback; the
\* three deletes after the loop are skipped.
OnDisconnectThrows(st, id, at, part) ==
  LET d == [c \in Ids |-> [id |-> DisconnectedId(id, c)]]
      s1 == IF at = "loop" /\ MapHas(st.pw, id)
            THEN LET s0 == [st EXCEPT !.pw = MapDelete(@, id)]
                 IN EmitTo(s0, part \cap ConnectedControls(s0),
                           "presentationDisconnected", d)
            ELSE st
  IN [s1 EXCEPT !.closing = @ \ {id}, !.latestRole = MapDelete(@, id)]

\* ------------------------------------------------- the presentation store
Store ==
  [currentSong |-> currentSong, currentSegment |-> currentSegment, queue |-> queue,
   sent |-> sent]

\* The store a store action starts from: nothing passed to sendUpdate yet.
FreshStore(s) == [s EXCEPT !.sent = <<>>]

\* socketService.sendUpdate(data)
sendUpdate(s, data) == [s EXCEPT !.sent = Append(@, data)]

setCurrentSong(s, song) ==
  sendUpdate([s EXCEPT !.currentSong = song], [song |-> song])

setCurrentSegment(s, segment) ==
  sendUpdate([s EXCEPT !.currentSegment = segment], [segment |-> segment])

\* state.queue.some(s => s.id === song.id)
Queued(q, songId) == \E i \in 1..Len(q) : IdOf[q[i]] = songId

\* Mutant: the queue is searched for the song, not for its id.
addToQueueBySong(s, song) ==
  IF \E i \in 1..Len(s.queue) : s.queue[i] = song THEN s
  ELSE [s EXCEPT !.queue = Append(@, song)]

addToQueue(s, song) ==
  IF Queued(s.queue, IdOf[song]) THEN s
  ELSE [s EXCEPT !.queue = Append(@, song)]

\* Mutant: the selection is cleared whatever song is removed.
removeFromQueueClears(s, songId) ==
  sendUpdate([s EXCEPT !.queue = SelectSeq(@, LAMBDA x : IdOf[x] # songId),
                       !.currentSong = Null,
                       !.currentSegment = Null],
             [song |-> Null, segment |-> Null])

\* state.currentSong?.id === songId
removeFromQueue(s, songId) ==
  LET newState == [s EXCEPT !.queue = SelectSeq(@, LAMBDA x : IdOf[x] # songId)]
  IN IF s.currentSong # Null /\ IdOf[s.currentSong] = songId
     THEN sendUpdate([newState EXCEPT !.currentSong = Null, !.currentSegment = Null],
                     [song |-> Null, segment |-> Null])
     ELSE newState

\* ------------------------------------------------------- the display's view
View ==
  [localSong |-> localSong, localSegment |-> localSegment, handled |-> handled,
   isConnected |-> isConnected]

\* An update that is null.
NullData == [null |-> TRUE]

\* !data
Falsy(data) == data \in {NullData, Undefined}

\* Mutant: a key that is absent clears the field.
handleUpdateWhole(v, data) ==
  IF Falsy(data) THEN [v EXCEPT !.handled = data]
  ELSE [v EXCEPT
          !.localSong = IF "song" \in DOMAIN data THEN data.song ELSE Null,
          !.localSegment = IF "segment" \in DOMAIN data THEN data.segment ELSE Null,
          !.handled = data]

\* if ('song' in data) setLocalSong(data.song);
\* if ('segment' in data) setLocalSegment(data.segment);
handleUpdate(v, data) ==
  IF Falsy(data) THEN [v EXCEPT !.handled = data]
  ELSE [v EXCEPT
          !.localSong = IF "song" \in DOMAIN data THEN data.song ELSE @,
          !.localSegment = IF "segment" \in DOMAIN data THEN data.segment ELSE @,
          !.handled = data]

\* setIsConnected(false)
handleDisconnect(v) == [v EXCEPT !.isConnected = FALSE]

\* setIsConnected(true)
handleReconnect(v) == [v EXCEPT !.isConnected = TRUE]

\* ------------------------------------------------------- the socket service
NoSocket == [n |-> 0, connected |-> FALSE, id |-> Null, connects |-> 0]
NoSettle == [n |-> 0, outcome |-> "-", callers |-> 0]
Constructing ==
  [socket |-> NoSocket, connectionPromise |-> 0, isConnecting |-> FALSE,
   lastError |-> Null, timer |-> 0, attempts |-> 0, waiters |-> 0,
   settled |-> NoSettle]

\* The service a callback starts from: no attempt settled yet.
FreshService(sv) == [sv EXCEPT !.settled = NoSettle]

\* The promise of attempt n settles, when it is still pending: the finally
\* callback runs before any caller that awaits it goes on.
Settle(sv, n, outcome) ==
  IF sv.connectionPromise = n /\ n # 0
  THEN [sv EXCEPT !.connectionPromise = 0,
                  !.isConnecting = FALSE,
                  !.waiters = 0,
                  !.settled = [n |-> n, outcome |-> outcome, callers |-> sv.waiters]]
  ELSE sv

\* Mutant: a call does not look at connectionPromise.
connectAnew(sv, fail) ==
  IF sv.socket.connected THEN sv
  ELSE LET n == sv.attempts + 1
       IN [sv EXCEPT !.isConnecting = TRUE, !.lastError = Null, !.attempts = n,
                     !.timer = n, !.connectionPromise = n, !.waiters = 1,
                     !.socket = [n |-> n, connected |-> FALSE, id |-> Null,
                                 connects |-> 0]]

\* connect(): fail says whether getSocketUrl() or io(...) throws.  The old
\* socket is disposed of, the timeout of the new attempt is armed before the
\* socket is created, and its clearTimeout is kept in cleanupFunctions.
connect(sv, fail) ==
  IF sv.socket.connected THEN sv
  ELSE IF sv.connectionPromise # 0 THEN [sv EXCEPT !.waiters = @ + 1]
  ELSE IF sv.isConnecting THEN sv
  ELSE LET n == sv.attempts + 1
           s1 == [sv EXCEPT !.isConnecting = TRUE, !.lastError = Null,
                            !.attempts = n, !.socket = NoSocket, !.timer = n,
                            !.connectionPromise = n, !.waiters = 1]
       IN IF fail
          THEN Settle([s1 EXCEPT !.lastError = "Socket initialization error"],
                      n, "failed")
          ELSE [s1 EXCEPT !.socket = [n |-> n, connected |-> FALSE, id |-> Null,
                                      connects |-> 0]]

\* socket.on('connect'): clearTimeout(timeoutId); resolve()
onConnect(sv, id) ==
  LET n == sv.socket.n
      s1 == [sv EXCEPT !.socket = [@ EXCEPT !.connected = TRUE, !.id = id,
                                            !.connects = @ + 1],
                       !.timer = IF @ = n THEN 0 ELSE @]
  IN Settle(s1, n, "connected")

\* socket.on('connect_error')
onConnectError(sv) == [sv EXCEPT !.lastError = "connect_error"]

\* The transport of the socket is lost.
onDrop(sv) == [sv EXCEPT !.socket = [@ EXCEPT !.connected = FALSE, !.id = Null]]

\* The connection timeout of attempt sv.timer fires.
onTimeout(sv) ==
  Settle([sv EXCEPT !.lastError = "Connection timeout",
                    !.isConnecting = FALSE,
                    !.socket = NoSocket,
                    !.timer = 0],
         sv.timer, "timeout")

\* disconnect(): a promise that is pending is dropped, not settled.
disconnect(sv) ==
  [sv EXCEPT !.timer = 0, !.socket = NoSocket, !.connectionPromise = 0,
             !.isConnecting = FALSE, !.lastError = Null, !.waiters = 0]

\* ----------------------------------------------------------------- actions
\* The relay is left as st.
BecomesRelay(st) ==
  /\ ~process.exited
  /\ process' = process
  /\ presentationWindows' = st.pw
  /\ controlPanels' = st.cp
  /\ messageQueue' = st.mq
  /\ heartbeats' = st.hb
  /\ sockets' = st.sockets
  /\ closing' = st.closing
  /\ emitted' = st.emitted
  /\ ack' = st.ack
  /\ calls' = st.calls
  /\ req' = st.req
  /\ updates' = st.updates
  /\ latestRole' = st.latestRole
  /\ away' = st.away

\* A callback of the relay runs (the process has not exited) and leaves the
\* relay as st; no callback of the relay touches the process or a client.
Becomes(st) == BecomesRelay(st) /\ UNCHANGED client

\* httpServer.listen(PORT) has succeeded.
Serving == [listening |-> TRUE, exited |-> FALSE, fatal |-> "none"]

Constructed ==
  /\ presentationWindows = EmptyMap
  /\ controlPanels = EmptyMap
  /\ messageQueue = EmptyMap
  /\ heartbeats = EmptyMap
  /\ sockets = {}
  /\ closing = {}
  /\ now = 0
  /\ emitted = [i \in Ids |-> <<>>]
  /\ ack = NoAck
  /\ calls = <<>>
  /\ req = NoReq
  /\ updates = 0
  /\ latestRole = EmptyMap
  /\ process = Serving
  /\ currentSong = Null
  /\ currentSegment = Null
  /\ queue = <<>>
  /\ sent = <<>>
  /\ localSong = Null
  /\ localSegment = Null
  /\ handled = Undefined
  /\ isConnected = FALSE
  /\ retryCount = 0
  /\ setup = [pc |-> "idle", id |-> Null]
  /\ service = Constructing
  /\ wire = <<>>
  /\ inbox = <<>>

Init == Constructed /\ away = NotTracked

InitTimed == Constructed /\ away = NoAway

\* socket.io hands the relay a new socket; an id is not handed out again
\* while the 'disconnect' of its previous socket is still to be dispatched.
Connect(S) ==
  \E id \in S \ (sockets \cup closing) :
    /\ process.listening
    /\ Becomes(OnConnection(Fresh(State), id, now)) /\ UNCHANGED now

Ping ==
  \E id \in sockets : Becomes(OnPing(Fresh(State), id, now)) /\ UNCHANGED now

RegisterPresentation(S) ==
  \E id \in S \cap sockets, cb \in BOOLEAN :
    Becomes(OnRegisterPresentation(Fresh(State), id, now, cb)) /\ UNCHANGED now

RegisterControl(S) ==
  \E id \in S \cap sockets, cb \in BOOLEAN :
    Becomes(OnRegisterControl(Fresh(State), id, now, cb)) /\ UNCHANGED now

PresentationUpdate ==
  \E id \in sockets, data \in Payloads, cb \in BOOLEAN :
    /\ updates < MaxUpdates
    /\ Becomes(OnPresentationUpdate(Fresh(State), id, data, cb))
    /\ UNCHANGED now

TransportClose ==
  \E id \in sockets : Becomes(CloseTransport(Fresh(State), id)) /\ UNCHANGED now

\* socket.io dispatches 'disconnect' to the handler of the socket of id.
DisconnectOf(id) ==
  id \in closing /\ Becomes(OnDisconnect(Fresh(State), id)) /\ UNCHANGED now

Disconnect == \E id \in closing : DisconnectOf(id)

\* A timer period passes.  Both intervals are due at its end, the heartbeat
\* check (set first) before the stale cleanup; the heartbeat check in the
\* middle of the period finds the same entries timed out, since every
\* timestamp lies on a period boundary.
Tick ==
  /\ now < MaxTicks * StaleInterval
  /\ now' = now + StaleInterval
  /\ \E order \in Orders(TimedOut(heartbeats, now')) :
       Becomes(StaleCleanup(HeartbeatWalk(Fresh(State), order), now'))

\* ------------------------------------------------- process-level handlers
relay == <<presentationWindows, controlPanels, messageQueue, heartbeats, sockets,
           closing, now, emitted, ack, calls, req, updates, latestRole, away>>

\* process.on('uncaughtException'): httpServer.close(() => process.exit(1)).
\* close() stops the server from accepting connections; its callback runs
\* when the connections that are open have ended.
UncaughtException ==
  /\ ~process.exited
  /\ process' = [process EXCEPT !.listening = FALSE, !.fatal = "uncaughtException"]
  /\ UNCHANGED <<relay, client>>

\* process.on('unhandledRejection'): console.error only.
UnhandledRejection ==
  /\ ~process.exited
  /\ process' = [process EXCEPT !.fatal = "unhandledRejection"]
  /\ UNCHANGED <<relay, client>>

\* The callback of httpServer.close: process.exit(1), once the server is
\* closed and no connection is left.
Exit ==
  /\ ~process.exited
  /\ ~process.listening
  /\ sockets = {}
  /\ process' = [process EXCEPT !.exited = TRUE]
  /\ UNCHANGED <<relay, client>>

\* The relay within one timer period: any client may take any role.
Next ==
  \/ Connect(Ids)
  \/ Ping
  \/ RegisterPresentation(Ids)
  \/ RegisterControl(Ids)
  \/ PresentationUpdate
  \/ TransportClose
  \/ Disconnect

Spec == Init /\ [][Next]_vars

\* The relay within one timer period, with the process-level error events.
NextProcess ==
  \/ Connect(Ids)
  \/ Ping
  \/ RegisterPresentation(Ids)
  \/ RegisterControl(Ids)
  \/ PresentationUpdate
  \/ TransportClose
  \/ Disconnect
  \/ UncaughtException
  \/ UnhandledRejection
  \/ Exit

SpecProcess == Init /\ [][NextProcess]_vars

\* The relay over MaxTicks timer periods, with one display client and one
\* control client.
NextTimed ==
  \/ Connect(TimedDisplays \cup TimedControls)
  \/ Ping
  \/ RegisterPresentation(TimedDisplays)
  \/ RegisterControl(TimedControls)
  \/ PresentationUpdate
  \/ TransportClose
  \/ Disconnect
  \/ Tick

SpecTimed == InitTimed /\ [][NextTimed]_vars

\* The same over MaxLiveTicks periods, with what the runtime guarantees: the
\* interval timers keep firing and socket.io dispatches 'disconnect' for
\* every transport that closed.
TickLive == Tick /\ now' <= MaxLiveTicks * StaleInterval

NextLive ==
  \/ Connect(TimedDisplays \cup TimedControls)
  \/ Ping
  \/ RegisterPresentation(TimedDisplays)
  \/ RegisterControl(TimedControls)
  \/ PresentationUpdate
  \/ TransportClose
  \/ Disconnect
  \/ TickLive

SpecLive ==
  /\ Init /\ [][NextLive]_vars
  /\ WF_vars(TickLive)
  /\ \A id \in TimedDisplays \cup TimedControls : WF_vars(DisconnectOf(id))

\* The relay within one timer period with one display client and one control
\* client, where a handler may raise an exception.
RegisterPresentationThrows(S) ==
  \E id \in S \cap sockets, cb \in BOOLEAN, at \in ThrowPlaces, part \in SUBSET Ids :
    /\ CanThrow(controlPanels, at, part)
    /\ Becomes(OnRegisterPresentationThrows(Fresh(State), id, now, cb, at, part))
    /\ UNCHANGED now

RegisterControlThrows(S) ==
  \E id \in S \cap sockets, cb \in BOOLEAN :
    Becomes(OnRegisterControlThrows(Fresh(State), id, now, cb)) /\ UNCHANGED now

PresentationUpdateThrows ==
  \E id \in sockets, data \in Payloads, cb \in BOOLEAN, at \in ThrowPlaces,
     part \in SUBSET Ids :
    /\ updates < MaxUpdates
    /\ CanThrow(presentationWindows, at, part)
    /\ Becomes(OnPresentationUpdateThrows(Fresh(State), id, data, cb, at, part))
    /\ UNCHANGED now

DisconnectThrows ==
  \E id \in closing, at \in ThrowPlaces, part \in SUBSET Ids :
    /\ at = "loop" => MapHas(presentationWindows, id)
    /\ CanThrow(controlPanels, at, part)
    /\ Becomes(OnDisconnectThrows(Fresh(State), id, at, part))
    /\ UNCHANGED now

NextFaults ==
  \/ Connect(TimedDisplays \cup TimedControls)
  \/ Ping
  \/ RegisterPresentation(TimedDisplays)
  \/ RegisterControl(TimedControls)
  \/ PresentationUpdate
  \/ TransportClose
  \/ Disconnect
  \/ RegisterPresentationThrows(TimedDisplays)
  \/ RegisterControlThrows(TimedControls)
  \/ PresentationUpdateThrows
  \/ DisconnectThrows

SpecFaults == Init /\ [][NextFaults]_vars

\* ------------------------------------------------------ actions of the store
StoreBecomes(s) ==
  /\ currentSong' = s.currentSong
  /\ currentSegment' = s.currentSegment
  /\ queue' = s.queue
  /\ sent' = s.sent

\* A store action leaves the store as s.  Where the control's socket is part
\* of the specification (linked), what the action passed to sendUpdate is
\* emitted on it: socket.emit('presentationUpdate', data, ...).
StoreAction(s, linked) ==
  /\ StoreBecomes(s)
  /\ wire' = IF linked THEN wire \o s.sent ELSE wire
  /\ UNCHANGED <<relay, process, viewVars, displayVars, inbox>>

SetCurrentSong(linked) ==
  \E song \in Songs \cup {Null} :
    /\ linked => updates + Len(wire) < MaxUpdates
    /\ StoreAction(setCurrentSong(FreshStore(Store), song), linked)

SetCurrentSegment(linked) ==
  \E segment \in Segments \cup {Null} :
    /\ linked => updates + Len(wire) < MaxUpdates
    /\ StoreAction(setCurrentSegment(FreshStore(Store), segment), linked)

AddToQueue(linked) ==
  \E song \in Songs : StoreAction(addToQueue(FreshStore(Store), song), linked)

RemoveFromQueue(linked) ==
  \E songId \in SongIds :
    /\ linked => updates + Len(wire) < MaxUpdates
    /\ StoreAction(removeFromQueue(FreshStore(Store), songId), linked)

\* The store alone.
NextStore ==
  \/ SetCurrentSong(FALSE)
  \/ SetCurrentSegment(FALSE)
  \/ AddToQueue(FALSE)
  \/ RemoveFromQueue(FALSE)

SpecStore == Init /\ [][NextStore]_vars

\* ------------------------------------------------------- actions of the view
\* What the window's 'message' listener can hand to handleUpdate: null,
\* undefined, or an object with any of the two keys.
UpdateInputs ==
  {NullData, Undefined, Meta(0)}
    \cup {[song |-> x] : x \in Songs \cup {Null}}
    \cup {[segment |-> y] : y \in Segments \cup {Null}}
    \cup {[song |-> x, segment |-> y] : x \in Songs \cup {Null}, y \in Segments \cup {Null}}

ViewBecomes(v) ==
  /\ localSong' = v.localSong
  /\ localSegment' = v.localSegment
  /\ handled' = v.handled
  /\ isConnected' = v.isConnected

\* window 'message' listener: handleUpdate(event.data.data)
HandleMessage ==
  \E data \in UpdateInputs :
    /\ ViewBecomes(handleUpdate(View, data))
    /\ UNCHANGED <<relay, process, storeVars, displayVars, wire, inbox>>

\* disconnectHandlers.forEach(handler => handler())
HandleDisconnect ==
  /\ ViewBecomes(handleDisconnect(View))
  /\ UNCHANGED <<relay, process, storeVars, displayVars, wire, inbox>>

\* reconnectHandlers.forEach(handler => handler())
HandleReconnect ==
  /\ ViewBecomes(handleReconnect(View))
  /\ UNCHANGED <<relay, process, storeVars, displayVars, wire, inbox>>

\* The view alone: its callbacks, called in any order.
NextView ==
  \/ HandleMessage
  \/ HandleDisconnect
  \/ HandleReconnect

SpecView == Init /\ [][NextView]_vars

\* ------------------------------------- control, relay and display together
\* The relay serves the oldest presentationUpdate the control's socket has
\* emitted; what it emits to the display's socket is on its way to the view.
\* The presentationUpdate events among the events emitted to a socket.
UpdateEvents(q) == SelectSeq(q, LAMBDA m : m.event = "presentationUpdate")

DataOf(q) == [i \in 1..Len(q) |-> q[i].data]

RelayServes ==
  /\ wire # <<>>
  /\ \E id \in TimedControls \cap sockets, w \in TimedDisplays :
       LET st == OnPresentationUpdate(Fresh(State), id, Head(wire), TRUE)
       IN /\ BecomesRelay(st)
          /\ inbox' = inbox \o DataOf(UpdateEvents(st.emitted[w]))
  /\ wire' = Tail(wire)
  /\ UNCHANGED <<now, storeVars, viewVars, displayVars>>

\* socket.on('presentationUpdate'): updateHandlers.forEach(handler => handler(data))
DisplayHandles ==
  /\ inbox # <<>>
  /\ ViewBecomes(handleUpdate(View, Head(inbox)))
  /\ inbox' = Tail(inbox)
  /\ UNCHANGED <<relay, process, storeVars, displayVars, wire>>

\* The display is registered and its socket is connected.
DisplayReady == TimedDisplays \subseteq sockets \cap DOMAIN presentationWindows

\* The operator of the control selects once the display is ready.
SelectSong == DisplayReady /\ SetCurrentSong(TRUE)

SelectSegment == DisplayReady /\ SetCurrentSegment(TRUE)

RemoveSong == DisplayReady /\ RemoveFromQueue(TRUE)

\* One control and one display that stay connected.
NextEndToEnd ==
  \/ Connect(TimedDisplays \cup TimedControls)
  \/ RegisterPresentation(TimedDisplays)
  \/ RegisterControl(TimedControls)
  \/ SelectSong
  \/ SelectSegment
  \/ RemoveSong
  \/ RelayServes
  \/ DisplayHandles

SpecEndToEnd == Init /\ [][NextEndToEnd]_vars

\* --------------------------------------------- actions of the socket service
\* Where the relay is part of the specification (linked), the transport of
\* the display's socket is a socket of the relay.
RelayAlso(linked, st) ==
  IF linked THEN BecomesRelay(st) /\ UNCHANGED now
  ELSE UNCHANGED <<relay, process>>

\* setupPresentation goes on after `await socketService.connect()`: when the
\* attempt it awaits has connected it emits registerPresentation on the
\* socket, when the attempt was rejected its catch block runs.
Failed(count) ==
  [pc |-> IF count + 1 < maxRetries THEN "retry" ELSE "idle", id |-> Null]

AfterSettle(sv) ==
  IF setup.pc # "connecting" \/ sv.settled = NoSettle
  THEN UNCHANGED <<setup, retryCount>>
  ELSE IF sv.settled.outcome = "connected"
       THEN setup' = [pc |-> "registering", id |-> sv.socket.id] /\ UNCHANGED retryCount
       ELSE setup' = Failed(retryCount) /\ retryCount' = retryCount + 1

\* A caller other than setupPresentation calls connect().
ConnectCall ==
  \E fail \in BOOLEAN :
    LET sv == connect(FreshService(service), fail)
    IN /\ sv.attempts <= MaxAttempts
       /\ sv.waiters <= MaxCallers
       /\ service' = sv
       /\ AfterSettle(sv)
       /\ UNCHANGED <<relay, process, storeVars, viewVars, wire, inbox>>

\* The handshake of the socket completes, for the first time or again after
\* a drop (reconnection: true): the 'connect' listener runs.
SocketConnects(linked) ==
  /\ service.socket.n # 0
  /\ ~service.socket.connected
  /\ service.socket.connects < MaxConnects
  /\ linked => process.listening
  /\ \E id \in DisplayIds \ (sockets \cup closing) :
       LET sv == onConnect(FreshService(service), id)
       IN /\ service' = sv
          /\ AfterSettle(sv)
          /\ RelayAlso(linked, OnConnection(Fresh(State), id, now))
  /\ ViewBecomes(handleReconnect(View))
  /\ UNCHANGED <<storeVars, wire, inbox>>

SocketConnectError ==
  /\ service.socket.n # 0
  /\ ~service.socket.connected
  /\ service' = onConnectError(FreshService(service))
  /\ UNCHANGED <<relay, process, storeVars, viewVars, retryCount, setup, wire, inbox>>

\* The transport is lost: the 'disconnect' listener runs.
SocketDrops(linked) ==
  /\ service.socket.connected
  /\ service' = onDrop(FreshService(service))
  /\ ViewBecomes(handleDisconnect(View))
  /\ RelayAlso(linked, CloseTransport(Fresh(State), service.socket.id))
  /\ UNCHANGED <<storeVars, retryCount, setup, wire, inbox>>

\* setTimeout(..., this.connectionTimeout) fires.
ConnectTimeout ==
  /\ service.timer # 0
  /\ LET sv == onTimeout(FreshService(service))
     IN /\ service' = sv
        /\ AfterSettle(sv)
        /\ ViewBecomes(IF setup.pc = "connecting" /\ sv.settled # NoSettle
                       THEN handleDisconnect(View) ELSE View)
  /\ UNCHANGED <<relay, process, storeVars, wire, inbox>>

\* The view is unmounted: socketService.disconnect().
DisconnectCall ==
  /\ service' = disconnect(FreshService(service))
  /\ setup' = [pc |-> "idle", id |-> Null]
  /\ UNCHANGED <<relay, process, storeVars, viewVars, retryCount, wire, inbox>>

\* The display's socket service with the view's handlers, the relay left out.
NextService ==
  \/ ConnectCall
  \/ SocketConnects(FALSE)
  \/ SocketConnectError
  \/ SocketDrops(FALSE)
  \/ ConnectTimeout
  \/ DisconnectCall

SpecService == Init /\ [][NextService]_vars

\* ----------------------------------------------------- the display's client
\* setupPresentation is called (on mount, by the focus check while the
\* service is not connected, or by the retry timer).
SetupStart ==
  /\ \/ setup.pc = "idle" /\ ~service.socket.connected
     \/ setup.pc = "retry"
  /\ IF service.socket.connected
     THEN /\ setup' = [pc |-> "registering", id |-> service.socket.id]
          /\ UNCHANGED <<service, retryCount, viewVars>>
     ELSE \E fail \in BOOLEAN :
            LET sv == connect(FreshService(service), fail)
            IN /\ sv.attempts <= MaxAttempts
               /\ service' = sv
               /\ IF sv.settled # NoSettle
                  THEN /\ setup' = Failed(retryCount)
                       /\ retryCount' = retryCount + 1
                       /\ ViewBecomes(handleDisconnect(View))
                  ELSE /\ setup' = [pc |-> "connecting", id |-> Null]
                       /\ UNCHANGED <<retryCount, viewVars>>
  /\ UNCHANGED <<relay, process, storeVars, wire, inbox>>

\* The relay serves the registerPresentation the client emitted, if the
\* socket it was emitted on is still connected.
RelayRegisters ==
  /\ setup.pc = "registering"
  /\ setup.id \in sockets
  /\ BecomesRelay(OnRegisterPresentation(Fresh(State), setup.id, now, TRUE))
  /\ setup' = [setup EXCEPT !.pc = "acked"]
  /\ UNCHANGED <<now, storeVars, viewVars, retryCount, service, wire, inbox>>

\* The acknowledgement arrives on the socket the request was emitted on:
\* setIsConnected(true); setRetryCount(0).
AckArrives ==
  /\ setup.pc = "acked"
  /\ service.socket.connected
  /\ service.socket.id = setup.id
  /\ ViewBecomes(handleReconnect(View))
  /\ retryCount' = 0
  /\ setup' = [pc |-> "idle", id |-> Null]
  /\ UNCHANGED <<relay, process, storeVars, service, wire, inbox>>

\* The 5000 ms timer of registerPresentation fires before the
\* acknowledgement: the catch block of setupPresentation runs.
RegistrationTimeout ==
  /\ setup.pc \in {"registering", "acked"}
  /\ ViewBecomes(handleDisconnect(View))
  /\ setup' = Failed(retryCount)
  /\ retryCount' = retryCount + 1
  /\ UNCHANGED <<relay, process, storeVars, service, wire, inbox>>

\* The display's client and the relay.
NextDisplay ==
  \/ SetupStart
  \/ SocketConnects(TRUE)
  \/ SocketConnectError
  \/ SocketDrops(TRUE)
  \/ ConnectTimeout
  \/ RelayRegisters
  \/ AckArrives
  \/ RegistrationTimeout
  \/ Disconnect

SpecDisplay == Init /\ [][NextDisplay]_vars

\* ------------------------------------------------------------------ claims
UpdateMsg(p) == Msg("presentationUpdate", p)
Has(q, m) == \E i \in 1..Len(q) : q[i] = m
Mailbox(mq, w) == IF MapHas(mq, w) THEN mq[w] ELSE <<>>
IsUpdate == updates' = updates + 1

\* C1: when the relay serves a presentationUpdate with payload P, every
\* presentationUpdate event it sends to a connected display carries exactly P,
\* and the mailbox entry it appends for an unreachable display carries exactly P.
C1_PayloadForwardedAsIs ==
  [][IsUpdate =>
       \A w \in DOMAIN presentationWindows :
         /\ \A i \in 1..Len(emitted'[w]) :
              emitted'[w][i].event = "presentationUpdate" => emitted'[w][i].data = req'
         /\ w \notin sockets =>
              /\ Mailbox(messageQueue', w) # <<>>
              /\ Mailbox(messageQueue', w)[Len(Mailbox(messageQueue', w))].data = req']_vars

\* C2: a display that stays registered and connected is sent, by every step,
\* exactly the update that step serves (one event with that payload for an
\* update, no update event otherwise), so it receives the updates issued, once
\* each and in issue order; an update enqueued instead goes to the end of the
\* mailbox.
C2_UpdatesOnceInOrder ==
  [][\A w \in (DOMAIN presentationWindows) \cap (DOMAIN presentationWindows') :
       /\ (w \in sockets /\ w \in sockets') =>
            UpdateEvents(emitted'[w]) = IF IsUpdate THEN <<UpdateMsg(req')>> ELSE <<>>
       /\ (w \notin sockets /\ IsUpdate) =>
            Mailbox(messageQueue', w) = Append(Mailbox(messageQueue, w), UpdateMsg(req'))]_vars

\* C3: when a display that lost its transport registers as a display again, the
\* updates sent to it since it came back are exactly the updates requested
\* while it had no transport, in order, once each.
C3_MissedUpdatesReplayed ==
  [][(away.id \in Ids /\ away' = NoAway) => away.received = away.missed]_vars

\* C4: one presentationUpdate reaches every display of the registry: a display
\* whose transport is open is sent the update, a display whose transport is not
\* open has it appended to its own mailbox, whatever the state of the other
\* displays, and the sender is not answered with an error.
C4_FanOutReachesEveryDisplay ==
  [][IsUpdate =>
       /\ ack'.result # "error"
       /\ \A w \in DOMAIN presentationWindows :
            IF w \in sockets
            THEN /\ emitted'[w] = <<UpdateMsg(req')>>
                 /\ Mailbox(messageQueue', w) = Mailbox(messageQueue, w)
            ELSE /\ emitted'[w] = <<>>
                 /\ Mailbox(messageQueue', w) =
                      Append(Mailbox(messageQueue, w), UpdateMsg(req'))]_vars

\* C5: a connection the heartbeat sweep evicts (its heartbeat is older than the
\* timeout and its socket is still there) is in neither role map afterwards,
\* and if it was a display every control still registered and connected is
\* sent presentationDisconnected with the id of the evicted display.
C5_EvictionRemovesAndNotifies ==
  [][now' # now =>
       \A id \in TimedOut(heartbeats, now') \cap sockets :
         /\ ~MapHas(presentationWindows', id)
         /\ ~MapHas(controlPanels', id)
         /\ MapHas(presentationWindows, id) =>
              \A c \in (DOMAIN controlPanels') \cap sockets' :
                Has(emitted'[c], Msg("presentationDisconnected", [id |-> id]))]_vars

\* C6: the latest registration of a connection decides its role: a connection
\* whose latest registration is control gets no presentationUpdate sent or
\* enqueued by a fan-out, and a connection whose latest registration is display
\* is not notified as a control.
C6_LatestRoleWins ==
  [][\A id \in (DOMAIN latestRole) \cap (DOMAIN latestRole') :
       /\ (IsUpdate /\ latestRole[id] = "control") =>
            /\ UpdateEvents(emitted'[id]) = <<>>
            /\ Mailbox(messageQueue', id) = Mailbox(messageQueue, id)
       /\ (latestRole[id] = "display" /\ latestRole'[id] = "display") =>
            \A i \in 1..Len(emitted'[id]) :
              emitted'[id][i].event \notin {"presentationConnected", "presentationDisconnected"}]_vars

\* C7: no id is a key of both presentationWindows and controlPanels.
C7_OneRolePerId ==
  (DOMAIN presentationWindows) \cap (DOMAIN controlPanels) = {}

\* C8: no id has both a connected socket and a messageQueue entry.
C8_MailboxOnlyWhileDisconnected ==
  \A id \in sockets : ~MapHas(messageQueue, id)

\* A display without transport holds a mailbox while another socket is connected.
C8_Witness ==
  \E id \in closing :
    /\ MapHas(messageQueue, id)
    /\ Len(messageQueue[id]) >= 1
    /\ sockets # {}

\* C9: a registered display whose heartbeat is within the timeout when the
\* timers fire is still in presentationWindows afterwards.
C9_HeartbeatingDisplayStays ==
  [][now' # now =>
       \A id \in (DOMAIN presentationWindows) \cap sockets :
         (MapHas(heartbeats, id) /\ now' - heartbeats[id] <= HEARTBEAT_TIMEOUT) =>
           MapHas(presentationWindows', id)]_vars

\* C10: when the disconnect handler runs for a display D, every connected
\* control is sent exactly one presentationDisconnected and its id field is D;
\* when it runs for a connection that is not a display, nobody is sent
\* presentationDisconnected.
C10_DepartureCarriesDisplayId ==
  [][\A d \in closing \ closing' :
       IF MapHas(presentationWindows, d)
       THEN \A c \in (DOMAIN controlPanels') \cap sockets' :
              emitted'[c] = <<Msg("presentationDisconnected", [id |-> d])>>
       ELSE \A c \in Ids :
              \A i \in 1..Len(emitted'[c]) :
                emitted'[c][i].event # "presentationDisconnected"]_vars

\* The step is the registerPresentation / registerControl handler run for id.
IsRegisterPresentation(id) ==
  id \in sockets /\ \E cb \in BOOLEAN :
    Becomes(OnRegisterPresentation(Fresh(State), id, now, cb))
IsRegisterControl(id) ==
  id \in sockets /\ \E cb \in BOOLEAN :
    Becomes(OnRegisterControl(Fresh(State), id, now, cb))
InNoMap(pw, cp, mq, hb, id) ==
  ~MapHas(pw, id) /\ ~MapHas(cp, id) /\ ~MapHas(mq, id) /\ ~MapHas(hb, id)

\* C11: when id registers as display, every control of the registry with an
\* open transport is sent exactly presentationConnected {id: id} and nobody
\* else is sent anything; when id registers as control, nobody (so no display)
\* is sent anything.
C11_ArrivalNotifiesControlsOnly ==
  [][\A id \in sockets :
       /\ IsRegisterPresentation(id) =>
            \A c \in Ids :
              emitted'[c] = IF MapHas(controlPanels, c) /\ c \in sockets
                            THEN <<Msg("presentationConnected", [id |-> id])>>
                            ELSE <<>>
       /\ IsRegisterControl(id) => \A w \in Ids : emitted'[w] = <<>>]_vars

\* A control has just been told of the arrival of a display other than itself.
C11_Witness ==
  \E c \in DOMAIN controlPanels, d \in DOMAIN presentationWindows :
    /\ c # d
    /\ emitted[c] = <<Msg("presentationConnected", [id |-> d])>>

\* C12: after the disconnect handler has run for id, id is a key of none of
\* presentationWindows, controlPanels, messageQueue, heartbeats; when id was in
\* neither role map, both role maps are unchanged and nothing is emitted.
C12_DisconnectRemovesEverything ==
  [][\A id \in closing \ closing' :
       /\ InNoMap(presentationWindows', controlPanels', messageQueue', heartbeats', id)
       /\ (~MapHas(presentationWindows, id) /\ ~MapHas(controlPanels, id)) =>
            /\ presentationWindows' = presentationWindows
            /\ controlPanels' = controlPanels
            /\ \A c \in Ids : emitted'[c] = <<>>]_vars

\* The disconnect handler has just run for a display (a control was told) and
\* an id that is not connected any more is in no map, while another id still
\* holds a role.
C12_Witness ==
  /\ closing = {}
  /\ \E c \in sockets :
       /\ MapHas(controlPanels, c)
       /\ Has(emitted[c], Msg("presentationDisconnected", [id |-> c]))
  /\ \E id \in Ids \ sockets :
       InNoMap(presentationWindows, controlPanels, messageQueue, heartbeats, id)

\* C13: a presentationUpdate handler that was given a callback acknowledges
\* success, and in the state in which it has acknowledged every display of the
\* registry has been attended to: one presentationUpdate event emitted to it
\* when its socket is connected, one entry appended to its mailbox when not;
\* this holds whatever number of displays is unreachable, and with no display.
C13_AckAfterFanOut ==
  [][IsUpdate =>
       /\ (\E id \in sockets, data \in Payloads :
             Becomes(OnPresentationUpdate(Fresh(State), id, data, TRUE)))
            => ack' = [event |-> "presentationUpdate", result |-> "success"]
       /\ ack'.result \in {"success", "-"}
       /\ \A w \in DOMAIN presentationWindows :
            IF w \in sockets
            THEN Len(UpdateEvents(emitted'[w])) = 1
            ELSE /\ Len(Mailbox(messageQueue', w)) = Len(Mailbox(messageQueue, w)) + 1
                 /\ Mailbox(messageQueue', w)[Len(Mailbox(messageQueue', w))].event
                      = "presentationUpdate"]_vars

\* Success was acknowledged for an update that reached one display live and
\* was queued for another, unreachable one.
C13_Witness ==
  /\ ack = [event |-> "presentationUpdate", result |-> "success"]
  /\ \E w \in (DOMAIN presentationWindows) \cap sockets :
       Len(UpdateEvents(emitted[w])) = 1
  /\ \E w \in (DOMAIN presentationWindows) \ sockets :
       Mailbox(messageQueue, w) # <<>>

\* C14: an id whose transport is closed, or that has opened a transport and
\* not registered yet, is sent no presentationUpdate; the updates queued while
\* a display had no transport are sent to it by the step in which it registers
\* again.
C14_FlushOnlyAtRegistration ==
  [][/\ \A id \in Ids :
          (id \notin sockets' \/ ~MapHas(latestRole', id)) =>
            UpdateEvents(emitted'[id]) = <<>>
     /\ (away.id \in Ids /\ away' = NoAway) =>
          Len(UpdateEvents(emitted'[away.id])) = Len(away.missed)]_vars

\* C15: when a timer step removes an id from presentationWindows or from
\* controlPanels, messageQueue holds no entry for that id afterwards.
C15_EvictionClearsMailbox ==
  [][now' # now =>
       \A id \in ((DOMAIN presentationWindows) \ (DOMAIN presentationWindows'))
                   \cup ((DOMAIN controlPanels) \ (DOMAIN controlPanels')) :
         ~MapHas(messageQueue', id)]_vars

\* id has no socket and is a key of none of the four Maps.
Gone(id) ==
  /\ id \notin sockets
  /\ id \notin closing
  /\ InNoMap(presentationWindows, controlPanels, messageQueue, heartbeats, id)

\* id is connected and its last heartbeat is a full timeout old, while the
\* clock of the model can still advance.
Silent(id) ==
  /\ id \in sockets
  /\ MapHas(heartbeats, id)
  /\ now - heartbeats[id] >= HEARTBEAT_TIMEOUT
  /\ now < MaxLiveTicks * StaleInterval

\* C16: a connected id whose heartbeat is a timeout old heartbeats again or
\* ends up without socket and out of all four Maps; the timer step that finds
\* a connected id timed out leaves it so; and an id that is out of everything
\* stays out for as long as no new connection is opened under it.
C16_SilentConnectionEvicted ==
  /\ \A id \in TimedDisplays \cup TimedControls :
       Silent(id) ~> (Gone(id) \/ (MapHas(heartbeats, id) /\ heartbeats[id] = now))
  /\ [][now' # now => \A id \in TimedOut(heartbeats, now') \cap sockets : Gone(id)']_vars
  /\ [][\A id \in Ids : (Gone(id) /\ id \notin sockets') => Gone(id)']_vars

\* A timer step has just evicted a control: it was connected when the same
\* step told it of the eviction of the display, and it is gone now.
C16_Witness ==
  \E id \in Ids : Gone(id) /\ emitted[id] # <<>> /\ now >= 2 * StaleInterval

\* C18: a step that serves no presentationUpdate request (a connection, a
\* registration, ...) sends no presentationUpdate to an id that has no
\* mailbox: nothing broadcast earlier is replayed to a newly joined display.
C18_NoHistoryReplayed ==
  [][~IsUpdate =>
       \A id \in Ids :
         ~MapHas(messageQueue, id) => UpdateEvents(emitted'[id]) = <<>>]_vars

\* A display has just registered after an update was broadcast, it is the
\* only display, and it has been sent nothing.
C18_Witness ==
  /\ ack = [event |-> "registerPresentation", result |-> "success"]
  /\ updates >= 1
  /\ controlPanels = EmptyMap
  /\ \E id \in sockets :
       /\ DOMAIN presentationWindows = {id}
       /\ emitted[id] = <<>>

\* C19: a registerPresentation or registerControl from a connection that is
\* already in a role map is answered with an error and leaves both role maps
\* as they were.
C19_DuplicateRegistrationRejected ==
  [][\A id \in sockets :
       (MapHas(presentationWindows, id) \/ MapHas(controlPanels, id)) =>
         /\ Becomes(OnRegisterPresentation(Fresh(State), id, now, TRUE)) =>
              /\ ack'.result = "error"
              /\ presentationWindows' = presentationWindows
              /\ controlPanels' = controlPanels
         /\ Becomes(OnRegisterControl(Fresh(State), id, now, TRUE)) =>
              /\ ack'.result = "error"
              /\ presentationWindows' = presentationWindows
              /\ controlPanels' = controlPanels]_vars

\* C20: once a process-level fatal error (uncaught exception or unhandled
\* rejection) has been raised, the server does not listen any more and no
\* callback of the relay runs again: the relay's Maps and what it has emitted
\* and acknowledged stay as they are.
C20_FatalErrorShutsDown ==
  [][/\ process'.fatal # "none" => ~process'.listening
     /\ process.fatal # "none" =>
          UNCHANGED <<presentationWindows, controlPanels, messageQueue, heartbeats,
                      emitted, ack, req, updates>>]_vars

\* C21: when a handler (registerPresentation, registerControl,
\* presentationUpdate, disconnect) raises an exception, its catch block passes
\* an error result to the callback when one was supplied, the process is left
\* as it was (serving), and no connection is dropped, so the handlers of the
\* other connections remain to be served.
C21_ExceptionCaughtAndAcknowledged ==
  [][\A cb \in BOOLEAN, at \in ThrowPlaces, part \in SUBSET Ids :
       /\ \A id \in sockets :
            (\/ /\ CanThrow(controlPanels, at, part)
                /\ Becomes(OnRegisterPresentationThrows(Fresh(State), id, now, cb, at, part))
             \/ Becomes(OnRegisterControlThrows(Fresh(State), id, now, cb))
             \/ /\ CanThrow(presentationWindows, at, part)
                /\ \E data \in Payloads :
                     Becomes(OnPresentationUpdateThrows(Fresh(State), id, data, cb, at, part)))
            => /\ cb => ack'.result = "error" /\ calls'[Len(calls')] = "error"
               /\ process' = Serving
               /\ sockets' = sockets
       /\ \A id \in closing :
            (/\ CanThrow(controlPanels, at, part)
             /\ Becomes(OnDisconnectThrows(Fresh(State), id, at, part)))
            => /\ process' = Serving
               /\ sockets' = sockets]_vars

\* A handler has answered with an error while another connection is open.
C21_Witness == ack.result = "error" /\ Cardinality(sockets) >= 2

\* C24: the handler of one registerPresentation request passes at most one
\* result to the callback, {success: true} or {error}, never both.
C24_CallbackAtMostOnce == Len(calls) <= 1

\* C22: the stale cleanup run a second time at the same instant leaves the
\* state the first run left, both on its own and after the heartbeat check of
\* the same timer period; and an id whose socket the heartbeat check has just
\* disconnected is in neither registry when the stale cleanup runs, so the
\* cleanup deletes nothing for it.
C22_StaleCleanupIdempotent ==
  [][now' # now =>
       /\ StaleCleanup(StaleCleanup(State, now'), now') = StaleCleanup(State, now')
       /\ \A order \in Orders(TimedOut(heartbeats, now')) :
            LET h == HeartbeatWalk(Fresh(State), order)
                once == StaleCleanup(h, now')
            IN /\ StaleCleanup(once, now') = once
               /\ \A id \in TimedOut(heartbeats, now') \cap sockets :
                    /\ id \notin StaleEntries(h.pw, now') \cup StaleEntries(h.cp, now')
                    /\ ~MapHas(once.pw, id) /\ ~MapHas(once.cp, id)]_vars

\* The next timer period finds a stale control entry whose socket still
\* heartbeats, and a registered display whose heartbeat has timed out.
C22_Witness ==
  /\ now < MaxTicks * StaleInterval
  /\ StaleEntries(controlPanels, now + StaleInterval)
       \ TimedOut(heartbeats, now + StaleInterval) # {}
  /\ TimedOut(heartbeats, now + StaleInterval) \cap sockets
       \cap DOMAIN presentationWindows # {}

\* C23: a presentationUpdate sent by a connection that is not registered as a
\* control causes no fan-out.  The sender is one of the connected sockets, so
\* when none of them is in controlPanels the step that serves an update sends
\* no presentationUpdate event and appends to no mailbox.
C23_UpdatesOnlyFromControls ==
  [][(IsUpdate /\ \A id \in sockets : ~MapHas(controlPanels, id)) =>
       /\ \A w \in Ids : UpdateEvents(emitted'[w]) = <<>>
       /\ messageQueue' = messageQueue]_vars

\* C27: removeFromQueue(songId) removes from the queue exactly the songs with
\* that id and keeps the order of the rest; when the current song has that id
\* the selection becomes null and the one update {song: null, segment: null}
\* is sent, otherwise the selection is unchanged and no update is sent.
C27_RemoveFromQueueFrame ==
  [][\A songId \in SongIds :
       StoreBecomes(removeFromQueue(FreshStore(Store), songId)) =>
         LET Kept == {i \in 1..Len(queue) : IdOf[queue[i]] # songId}
             Nth(k) == CHOOSE i \in Kept : Cardinality({j \in Kept : j <= i}) = k
         IN /\ Len(queue') = Cardinality(Kept)
            /\ \A k \in 1..Len(queue') : queue'[k] = queue[Nth(k)]
            /\ IF currentSong # Null /\ IdOf[currentSong] = songId
               THEN /\ currentSong' = Null
                    /\ currentSegment' = Null
                    /\ sent' = <<[song |-> Null, segment |-> Null]>>
               ELSE /\ currentSong' = currentSong
                    /\ currentSegment' = currentSegment
                    /\ sent' = <<>>]_vars

\* The current song was removed, its segment cleared, another song is left.
C27_Witness ==
  /\ sent = <<[song |-> Null, segment |-> Null]>>
  /\ currentSong = Null
  /\ queue # <<>>

\* C28: the queue never holds two songs with the same id; addToQueue of a
\* song whose id is queued leaves the store as it was, and of any other song
\* appends it at the end and leaves the selection as it was.
C28_QueueIdsUnique ==
  [][/\ \A i, j \in 1..Len(queue') : IdOf[queue'[i]] = IdOf[queue'[j]] => i = j
     /\ \A song \in Songs :
          StoreBecomes(addToQueue(FreshStore(Store), song)) =>
            /\ currentSong' = currentSong
            /\ currentSegment' = currentSegment
            /\ sent' = <<>>
            /\ queue' = IF \E i \in 1..Len(queue) : IdOf[queue[i]] = IdOf[song]
                        THEN queue ELSE queue \o <<song>>]_vars

\* Two songs are queued; the second was appended behind the first.
C28_Witness == Len(queue) = 2

\* C29: handleUpdate sets a field of the view when its key is in the update,
\* to the value given (null clears it), and leaves a field whose key is
\* absent as it was; a null or missing update changes nothing.
C29_HandleUpdateFieldByField ==
  [][\A data \in UpdateInputs :
       ViewBecomes(handleUpdate(View, data)) =>
         /\ data \in {NullData, Undefined} =>
              localSong' = localSong /\ localSegment' = localSegment
         /\ data \notin {NullData, Undefined} =>
              /\ "song" \in DOMAIN data => localSong' = data.song
              /\ "song" \notin DOMAIN data => localSong' = localSong
              /\ "segment" \in DOMAIN data => localSegment' = data.segment
              /\ "segment" \notin DOMAIN data => localSegment' = localSegment]_vars

\* An update with only the segment key was applied to a view that shows a song.
C29_Witness ==
  /\ DOMAIN handled = {"segment"}
  /\ localSong # Null
  /\ localSegment = handled.segment

\* C25: with the display registered and connected since before the first
\* selection, once every update the store has sent is served by the relay and
\* handled by the view, the view shows the song and the segment the store
\* holds.
C25_DisplayAgreesWithStore ==
  (DisplayReady /\ wire = <<>> /\ inbox = <<>>) =>
    (localSong = currentSong /\ localSegment = currentSegment)

\* C26: when the socket of the display's client connects again after a drop,
\* on a new transport with a new id, the client does not report itself as
\* connected unless the relay holds that id as a display (or a run of
\* setupPresentation is under way that will register it).
C26_ReconnectRegistersFirst ==
  [][(/\ service.socket.connects >= 1
      /\ service'.socket.n = service.socket.n
      /\ service'.socket.connects = service.socket.connects + 1
      /\ setup'.pc = "idle"
      /\ isConnected')
     => MapHas(presentationWindows', service'.socket.id)]_vars

\* C30: connect() has at most one attempt in flight.  A call while the
\* promise is pending creates no socket and waits for that promise; a call
\* while the socket is connected changes nothing; the pending promise and the
\* socket are those of the latest attempt; and when an attempt settles, every
\* caller that waited is handed its outcome, isConnecting is false and
\* connectionPromise is null, so that connect() starts a new attempt unless
\* the socket is connected.
C30_SingleFlightConnect ==
  [][/\ \A fail \in BOOLEAN :
          service' = connect(FreshService(service), fail) =>
            /\ (service.connectionPromise # 0 /\ ~service.socket.connected) =>
                 /\ service'.attempts = service.attempts
                 /\ service'.socket = service.socket
                 /\ service'.connectionPromise = service.connectionPromise
                 /\ service'.waiters = service.waiters + 1
            /\ service.socket.connected =>
                 /\ service'.attempts = service.attempts
                 /\ service'.socket = service.socket
                 /\ service'.connectionPromise = service.connectionPromise
                 /\ service'.isConnecting = service.isConnecting
                 /\ service'.waiters = service.waiters
     /\ service'.connectionPromise # 0 =>
          /\ service'.connectionPromise = service'.attempts
          /\ service'.isConnecting
     /\ service'.socket.n \in {0, service'.attempts}
     /\ service'.settled # NoSettle =>
          /\ ~service'.isConnecting
          /\ service'.connectionPromise = 0
          /\ service'.settled.callers =
               IF service.connectionPromise = service'.settled.n
               THEN service.waiters ELSE 1
          /\ ~service'.socket.connected =>
               LET nx == connect(FreshService(service'), FALSE)
               IN /\ nx.attempts = service'.attempts + 1
                  /\ nx.connectionPromise = nx.attempts
                  /\ nx.socket.n = nx.attempts]_vars

\* An attempt has connected and two callers were handed its outcome.
C30_Witness ==
  /\ service.settled.outcome = "connected"
  /\ service.settled.callers = MaxCallers
====
